---- MODULE Spec2Model ----
(***************************************************************************)
(* GenericBlockDevice (drivers/src/block_device.rs): a page cache, LRU     *)
(* bounded, between byte-granular read/write/size/flush and a sector       *)
(* addressed LowBlockDevice.  One action per trait method; a call is       *)
(* atomic here (the cache lock is held for the whole of read and write).   *)
(* Byte arrays (the medium, frames, buffers) are functions over 0..n-1, as *)
(* the code indexes them.                                                  *)
(***************************************************************************)
EXTENDS Integers, Sequences, FiniteSets, TLC

----------------------------------------------------------------------------
(* Sizes.  The code's sector is 512 bytes and its page FRAME_SIZE bytes;   *)
(* the model keeps the ratio page/sector whole and scales both down.       *)

SECTOR_SIZE == 1

PAGE_SECTORS == 2

PAGE_CACHE_SIZE == PAGE_SECTORS * SECTOR_SIZE

BLOCK_CACHE_FRAMES == 2

\* The largest medium, in sectors: three whole pages when PAGE_SECTORS = 2.
MaxCapacity == 6

\* The longest buffer handed to read or write.
MaxLen == 4

\* Calls made on one device.
MaxOps == 3

\* The transport call (counted within one read or write) that may fail.
MaxFailAt == 3

\* Threads that call into one device at once, and the calls they make in
\* all.
NumThreads == 2
MaxCalls == 2

\* write's test `cache.as_ptr() as usize == 0x9000_0000`, as a frame number
\* (0x9000_0000 / 4096): frames are numbered, not addressed, here.
CACHE_NULL_ADDR == 589824

\* Physical frames the allocator owns: one more than the cache holds, since
\* a miss allocates the new frame before the victim's is dropped.
NumFrames == BLOCK_CACHE_FRAMES + 1

Frames == 1..NumFrames

\* A byte of a frame that nothing has written since alloc_frames.
Uninit == -1

FreshFrame == [j \in 0..(PAGE_CACHE_SIZE - 1) |-> Uninit]

Capacities == {MaxCapacity - 1, MaxCapacity}

Offsets == 0..(MaxCapacity * SECTOR_SIZE)

Lens == 0..MaxLen

\* The byte at index i of the buffer of the n-th call: it names its writer.
WVal(n, i) == 16 * n + i

WBuf(n, len) == [i \in 0..(len - 1) |-> WVal(n, i)]

\* The image the medium holds at construction.
InitImage(cap) == [p \in 0..(cap * SECTOR_SIZE - 1) |-> p]

Min(a, b) == IF a < b THEN a ELSE b

----------------------------------------------------------------------------
(* mem::alloc_frames / mem::free_frames: the external frame allocator.     *)

FreeFrames(alloc) == Frames \ alloc

\* alloc_frames(1): some frame not allocated now; `pick` is the allocator's
\* policy for this call.
alloc_frames(alloc, pick) ==
    IF pick = "lo"
    THEN CHOOSE f \in FreeFrames(alloc) : \A g \in FreeFrames(alloc) : f <= g
    ELSE CHOOSE f \in FreeFrames(alloc) : \A g \in FreeFrames(alloc) : f >= g

\* free_frames(ptr, n): frames ptr .. ptr+n-1 go back to the allocator.
free_frames(alloc, ptr, n) == alloc \ (ptr..(ptr + n - 1))

FrameTracker_new(ptr) == [ptr |-> ptr]

\* impl Drop for FrameTracker: free_frames(self.ptr, 1).
FrameTracker_drop_none(alloc, tracker) == alloc

FrameTracker_drop_two(alloc, tracker) == free_frames(alloc, tracker.ptr, 2)

FrameTracker_drop(alloc, tracker) == free_frames(alloc, tracker.ptr, 1)

----------------------------------------------------------------------------
(* lru::LruCache<usize, FrameTracker>: a sequence of [id, ft], most        *)
(* recently used first.                                                    *)

\* LruCache::new(NonZeroUsize::new(BLOCK_CACHE_FRAMES).unwrap())
CacheCapacity_plus1 == BLOCK_CACHE_FRAMES + 1

CacheCapacity == BLOCK_CACHE_FRAMES

LruContains(c, k) == \E i \in 1..Len(c) : c[i].id = k

LruIndex(c, k) == CHOOSE i \in 1..Len(c) : c[i].id = k

LruWithout(c, k) == SelectSeq(c, LAMBDA e : e.id # k)

\* get / get_mut: the entry becomes the most recently used.
LruGet_peek(c, k) == c
LruGet(c, k) == <<c[LruIndex(c, k)]>> \o LruWithout(c, k)

LruPeek(c, k) == c[LruIndex(c, k)].ft

\* push: inserts (k, v) as most recently used; gives back the entry it
\* replaced (same key) or evicted (cache full, the least recently used).
LruPush(c, k, v) ==
    IF LruContains(c, k)
    THEN [cache |-> <<[id |-> k, ft |-> v]>> \o LruWithout(c, k),
          old |-> <<c[LruIndex(c, k)]>>]
    ELSE IF Len(c) >= CacheCapacity
    THEN [cache |-> <<[id |-> k, ft |-> v]>> \o SubSeq(c, 1, Len(c) - 1),
          old |-> <<c[Len(c)]>>]
    ELSE [cache |-> <<[id |-> k, ft |-> v]>> \o c, old |-> <<>>]

----------------------------------------------------------------------------
(* LowBlockDevice: read_block / write_block / capacity.  A block index at  *)
(* or past capacity is an error (MemoryFat32Img indexes its slice out of   *)
(* range; VirtIOBlkWrapper maps the device's error to EIO); `fail` is an   *)
(* I/O error of the medium itself.                                         *)

read_block(medium, cap, block_id, fail) ==
    IF fail \/ block_id >= cap
    THEN [ok |-> FALSE, data |-> <<>>]
    ELSE [ok |-> TRUE,
          data |-> [j \in 0..(SECTOR_SIZE - 1) |->
                        medium[block_id * SECTOR_SIZE + j]]]

write_block(medium, cap, block_id, buf, fail) ==
    IF fail \/ block_id >= cap
    THEN [ok |-> FALSE, medium |-> medium]
    ELSE [ok |-> TRUE,
          medium |-> [p \in DOMAIN medium |->
                        IF /\ p >= block_id * SECTOR_SIZE
                           /\ p < block_id * SECTOR_SIZE + SECTOR_SIZE
                        THEN buf[p - block_id * SECTOR_SIZE]
                        ELSE medium[p]]]

----------------------------------------------------------------------------
(* The page access of read and write (the two bodies are the same code).   *)
(* st: [cache, mem, alloc, medium, dirty, written, log, buf, status,       *)
(* ionum]; rq: [kind, len, src, cap, failAt, pick].                        *)

start_block(page_id) == (page_id * PAGE_CACHE_SIZE) \div SECTOR_SIZE

end_block_short(page_id) == start_block(page_id) + 1

end_block(page_id) == start_block(page_id) + PAGE_CACHE_SIZE \div SECTOR_SIZE

\* target_buf = &cache[(i - start_block) * 512..(i - start_block + 1) * 512]
SliceLo(i, start) == (i - start) * SECTOR_SIZE

Panic(st, ev) ==
    [st EXCEPT !.status = "panic", !.log = Append(@, ev)]

\* for i in start_block..end_block { device.read_block(i, target_buf).unwrap(); }
RECURSIVE FillBlocks(_, _, _, _, _, _)
FillBlocks(st, rq, f, start, i, end) ==
    IF i >= end THEN st
    ELSE LET n == st.ionum + 1
             r == read_block(st.medium, rq.cap, i, n = rq.failAt)
         IN  IF ~r.ok
             THEN Panic([st EXCEPT !.ionum = n], <<"read_block", i, "Err">>)
             ELSE FillBlocks(
                    [st EXCEPT
                       !.ionum = n,
                       !.log = Append(@, <<"read_block", i, "Ok">>),
                       !.mem[f] = [j \in 0..(PAGE_CACHE_SIZE - 1) |->
                                     IF /\ j >= SliceLo(i, start)
                                        /\ j < SliceLo(i + 1, start)
                                     THEN r.data[j - SliceLo(i, start)]
                                     ELSE @[j]]],
                    rq, f, start, i + 1, end)

\* for i in start_block..end_block { device.write_block(i, target_buf).unwrap();
\*                                   self.dirty.lock().retain(|&x| x != id); }
RECURSIVE WriteBlocks(_, _, _, _, _, _)
WriteBlocks(st, rq, old, start, i, end) ==
    IF i >= end THEN st
    ELSE LET n == st.ionum + 1
             frame == st.mem[old.ft.ptr]
             target == [j \in 0..(SECTOR_SIZE - 1) |->
                           frame[SliceLo(i, start) + j]]
             w == write_block(st.medium, rq.cap, i, target, n = rq.failAt)
         IN  IF ~w.ok
             THEN Panic([st EXCEPT !.ionum = n], <<"write_block", i, "Err">>)
             ELSE WriteBlocks(
                    [st EXCEPT
                       !.ionum = n,
                       !.medium = w.medium,
                       !.dirty = SelectSeq(@, LAMBDA x : x # old.id),
                       !.log = @ \o << <<"write_block", i, "Ok">>,
                                       <<"retain", old.id, "Ok">> >>],
                    rq, old, start, i + 1, end)

\* if let Some((id, old_cache)) = old_cache { write back; } -- old_cache is
\* dropped at the end of the block, after the loop.
Evict_dirtyonly(st, rq, old) ==
    LET s0 == [st EXCEPT !.log = Append(@, <<"evict", old.id, "Ok">>)]
        s1 == IF \E k \in 1..Len(st.dirty) : st.dirty[k] = old.id
              THEN WriteBlocks(s0, rq, old, start_block(old.id),
                               start_block(old.id), end_block(old.id))
              ELSE s0
    IN  IF s1.status # "run" THEN s1
        ELSE [s1 EXCEPT
                !.alloc = FrameTracker_drop(@, old.ft),
                !.mem[old.ft.ptr] = FreshFrame,
                !.written = @ \ {old.id},
                !.log = Append(@, <<"free", old.ft.ptr, "Ok">>)]

Evict_freefirst(st, rq, old) ==
    LET s0 == [st EXCEPT
                 !.alloc = FrameTracker_drop(@, old.ft),
                 !.mem[old.ft.ptr] = FreshFrame,
                 !.written = @ \ {old.id},
                 !.log = @ \o << <<"evict", old.id, "Ok">>,
                                 <<"free", old.ft.ptr, "Ok">> >>]
    IN  WriteBlocks(s0, rq, old, start_block(old.id),
                    start_block(old.id), end_block(old.id))

Evict_newrange(st, rq, old) ==
    LET s0 == [st EXCEPT !.log = Append(@, <<"evict", old.id, "Ok">>)]
        s1 == WriteBlocks(s0, rq, old, start_block(st.cache[1].id),
                          start_block(st.cache[1].id),
                          end_block(st.cache[1].id))
    IN  IF s1.status # "run" THEN s1
        ELSE [s1 EXCEPT
                !.alloc = FrameTracker_drop(@, old.ft),
                !.mem[old.ft.ptr] = FreshFrame,
                !.written = @ \ {old.id},
                !.log = Append(@, <<"free", old.ft.ptr, "Ok">>)]

Evict(st, rq, old) ==
    LET s0 == [st EXCEPT !.log = Append(@, <<"evict", old.id, "Ok">>)]
        s1 == WriteBlocks(s0, rq, old, start_block(old.id),
                          start_block(old.id), end_block(old.id))
    IN  IF s1.status # "run" THEN s1
        ELSE [s1 EXCEPT
                !.alloc = FrameTracker_drop(@, old.ft),
                !.mem[old.ft.ptr] = FreshFrame,
                !.written = @ \ {old.id},
                !.log = Append(@, <<"free", old.ft.ptr, "Ok">>)]

MissFill_pushfirst(st, rq, page_id) ==
    LET s0 == [st EXCEPT !.log = Append(@, <<"lock_device", 0, "Ok">>)]
    IN  IF FreeFrames(s0.alloc) = {}
        THEN Panic(s0, <<"alloc", 0, "Err">>)
        ELSE
        LET f  == alloc_frames(s0.alloc, rq.pick)
            ft == FrameTracker_new(f)
            p  == LruPush(s0.cache, page_id, ft)
            s1 == [s0 EXCEPT !.alloc = @ \cup {f},
                             !.mem[f] = FreshFrame,
                             !.cache = p.cache,
                             !.log = @ \o << <<"alloc", f, "Ok">>,
                                             <<"push", page_id, "Ok">> >>]
            s2 == FillBlocks(s1, rq, f, start_block(page_id),
                             start_block(page_id), end_block(page_id))
        IN  IF s2.status # "run" THEN s2
            ELSE
            LET s4 == IF p.old = <<>> THEN s2 ELSE Evict(s2, rq, p.old[1])
            IN  IF s4.status # "run" THEN s4
                ELSE [s4 EXCEPT
                        !.log = Append(@, <<"unlock_device", 0, "Ok">>)]

\* if !cache_lock.contains(&page_id) { ... }
MissFill(st, rq, page_id) ==
    LET s0 == [st EXCEPT !.log = Append(@, <<"lock_device", 0, "Ok">>)]
    IN  IF FreeFrames(s0.alloc) = {}
        THEN Panic(s0, <<"alloc", 0, "Err">>)
        ELSE
        LET f  == alloc_frames(s0.alloc, rq.pick)
            ft == FrameTracker_new(f)
            s1 == [s0 EXCEPT !.alloc = @ \cup {f},
                             !.mem[f] = FreshFrame,
                             !.log = Append(@, <<"alloc", f, "Ok">>)]
            s2 == FillBlocks(s1, rq, f, start_block(page_id),
                             start_block(page_id), end_block(page_id))
        IN  IF s2.status # "run" THEN s2
            ELSE
            LET p  == LruPush(s2.cache, page_id, ft)
                s3 == [s2 EXCEPT !.cache = p.cache,
                                 !.log = Append(@, <<"push", page_id, "Ok">>)]
                s4 == IF p.old = <<>> THEN s3 ELSE Evict(s3, rq, p.old[1])
            IN  IF s4.status # "run" THEN s4
                ELSE [s4 EXCEPT
                        !.log = Append(@, <<"unlock_device", 0, "Ok">>)]

\* let copy_len = min(PAGE_CACHE_SIZE - offset, len - count);
copy_len(offset, len, count) == Min(PAGE_CACHE_SIZE - offset, len - count)

NextOffset_keep(kind, offset, cl) == offset

\* read: offset = 0;   write: offset = (offset + copy_len) % PAGE_CACHE_SIZE;
NextOffset(kind, offset, cl) ==
    IF kind = "read" THEN 0 ELSE (offset + cl) % PAGE_CACHE_SIZE

\* buf[count..count + copy_len].copy_from_slice(&cache[offset..offset + copy_len])
CopyOut_nooffset(st, page_id, ptr, count, offset, cl) ==
    [st EXCEPT !.buf = [i \in DOMAIN @ |->
                          IF i >= count /\ i < count + cl
                          THEN st.mem[ptr][i - count]
                          ELSE @[i]],
               !.log = Append(@, <<"copy", page_id, offset, cl>>)]

CopyOut(st, page_id, ptr, count, offset, cl) ==
    [st EXCEPT !.buf = [i \in DOMAIN @ |->
                          IF i >= count /\ i < count + cl
                          THEN st.mem[ptr][offset + (i - count)]
                          ELSE @[i]],
               !.log = Append(@, <<"copy", page_id, offset, cl>>)]

\* cache[offset..offset + copy_len].copy_from_slice(&buf[count..count + copy_len])
CopyIn_whole(st, rq, page_id, ptr, count, offset, cl) ==
    [st EXCEPT !.mem[ptr] = [j \in DOMAIN @ |->
                               IF j >= offset /\ j < offset + cl
                               THEN rq.src[count + (j - offset)]
                               ELSE 0],
               !.written = @ \cup {page_id},
               !.log = Append(@, <<"copy", page_id, offset, cl>>)]

CopyIn(st, rq, page_id, ptr, count, offset, cl) ==
    [st EXCEPT !.mem[ptr] = [j \in DOMAIN @ |->
                               IF j >= offset /\ j < offset + cl
                               THEN rq.src[count + (j - offset)]
                               ELSE @[j]],
               !.written = @ \cup {page_id},
               !.log = Append(@, <<"copy", page_id, offset, cl>>)]

\* while count < len { ... }
RECURSIVE rw_loop(_, _, _, _, _)
rw_loop(st, rq, count, offset, page_id) ==
    IF st.status # "run" \/ count >= rq.len THEN st
    ELSE
    LET s1 == IF ~LruContains(st.cache, page_id)
              THEN MissFill(st, rq, page_id) ELSE st
    IN  IF s1.status # "run" THEN s1
        ELSE
        LET s2  == [s1 EXCEPT !.cache = LruGet(@, page_id)]
            ptr == LruPeek(s2.cache, page_id).ptr
            cl  == copy_len(offset, rq.len, count)
        IN  IF rq.kind = "write" /\ ptr = CACHE_NULL_ADDR
            THEN Panic(s2, <<"cache is null", ptr, "Err">>)
            ELSE
            LET s3 == IF rq.kind = "read"
                      THEN CopyOut(s2, page_id, ptr, count, offset, cl)
                      ELSE CopyIn(s2, rq, page_id, ptr, count, offset, cl)
            IN  rw_loop(s3, rq, count + cl, NextOffset(rq.kind, offset, cl),
                        page_id + 1)

----------------------------------------------------------------------------
VARIABLES
    medium,     \* the transport's bytes (MemoryFat32Img::data)
    capacity,   \* LowBlockDevice::capacity(), in sectors
    cache,      \* GenericBlockDevice::cache, most recently used first
    mem,        \* the bytes of every physical frame
    allocated,  \* frames handed out by alloc_frames and not yet freed
    dirty,      \* GenericBlockDevice::dirty
    written,    \* ghost: resident pages written since they were filled
    shadow,     \* ghost: the device as one flat byte array
    nOps,       \* calls made so far
    call,       \* the last call: [op, offset, len]
    prev,       \* the op of the call before it
    ret,        \* what the last call returned: [kind, val]
    rbuf,       \* the buffer the last read filled
    log,        \* the locks, allocator and transport calls of the last call
    locks,      \* the owner of each Mutex (cache, device, dirty); 0 if free
    thr         \* each thread's position in its call, and the call's locals

vars == <<medium, capacity, cache, mem, allocated, dirty, written, shadow,
          nOps, call, prev, ret, rbuf, log, locks, thr>>

Threads == 1..NumThreads

\* Mutex::new(..) thrice in GenericBlockDevice::new: nobody holds a lock.
NoLocks == [cache |-> 0, device |-> 0, dirty |-> 0]

\* A thread outside any call.
IdleThr ==
    [pc |-> "idle", kind |-> "none", off |-> 0, len |-> 0, src |-> <<>>,
     count |-> 0, offset |-> 0, page_id |-> 0, buf |-> <<>>, old |-> <<>>,
     i |-> 0, ret |-> [kind |-> "none", val |-> 0]]

panicked == ret.kind = "panic"

\* GenericBlockDevice::new over a medium of `cap` sectors.
New(cap, image) ==
    /\ capacity = cap
    /\ medium = image
    /\ cache = <<>>
    /\ mem = [f \in Frames |-> FreshFrame]
    /\ allocated = {}
    /\ dirty = <<>>
    /\ written = {}
    /\ shadow = image
    /\ nOps = 0
    /\ call = [op |-> "new", offset |-> 0, len |-> 0]
    /\ prev = "none"
    /\ ret = [kind |-> "Ok", val |-> 0]
    /\ rbuf = <<>>
    /\ log = <<>>
    /\ locks = NoLocks
    /\ thr = [t \in Threads |-> IdleThr]

Init == \E cap \in Capacities : New(cap, InitImage(cap))

\* let mut cache_lock = self.cache.lock(); -- the first lock of read and
\* of write.
St0_devfirst(buf) ==
    [cache |-> cache, mem |-> mem, alloc |-> allocated, medium |-> medium,
     dirty |-> dirty, written |-> written, buf |-> buf, status |-> "run",
     ionum |-> 0,
     log |-> << <<"lock_device", 0, "Ok">>, <<"lock_cache", 0, "Ok">>,
                <<"unlock_device", 0, "Ok">> >>]

St0(buf) ==
    [cache |-> cache, mem |-> mem, alloc |-> allocated, medium |-> medium,
     dirty |-> dirty, written |-> written, buf |-> buf, status |-> "run",
     ionum |-> 0, log |-> << <<"lock_cache", 0, "Ok">> >>]

Rq(kind, src, len, pick, failAt) ==
    [kind |-> kind, len |-> len, src |-> src, cap |-> capacity,
     failAt |-> failAt, pick |-> pick]

\* The last event of a call that an injected transport error ended.
Injected(fin, failAt) ==
    failAt = 0 \/ (fin.status = "panic" /\ fin.ionum = failAt)

Commit(fin, op, offset, len) ==
    /\ cache' = fin.cache
    /\ mem' = fin.mem
    /\ allocated' = fin.alloc
    /\ medium' = fin.medium
    /\ dirty' = fin.dirty
    /\ written' = fin.written
    /\ nOps' = nOps + 1
    /\ call' = [op |-> op, offset |-> offset, len |-> len]
    /\ prev' = call.op
    /\ ret' = IF fin.status = "run"
              THEN [kind |-> "Ok", val |-> len]
              ELSE [kind |-> "panic", val |-> 0]
    /\ log' = IF fin.status = "run"
              THEN Append(fin.log, <<"unlock_cache", 0, "Ok">>)
              ELSE fin.log
    /\ UNCHANGED <<capacity, locks, thr>>

\* fn read(&self, buf: &mut [u8], offset: usize) -> AlienResult<usize>
ReadCall(len, offset, pick, failAt) ==
    /\ ~panicked
    /\ LET fin == rw_loop(St0([i \in 0..(len - 1) |-> 0]),
                          Rq("read", <<>>, len, pick, failAt),
                          0, offset % PAGE_CACHE_SIZE,
                          offset \div PAGE_CACHE_SIZE)
       IN  /\ Injected(fin, failAt)
           /\ Commit(fin, "read", offset, len)
           /\ rbuf' = fin.buf
           /\ UNCHANGED shadow

\* fn write(&self, buf: &[u8], offset: usize) -> AlienResult<usize>
WriteCall(src, offset, pick, failAt) ==
    /\ ~panicked
    /\ LET len == Cardinality(DOMAIN src)
           fin == rw_loop(St0(<<>>),
                          Rq("write", src, len, pick, failAt),
                          0, offset % PAGE_CACHE_SIZE,
                          offset \div PAGE_CACHE_SIZE)
       IN  /\ Injected(fin, failAt)
           /\ Commit(fin, "write", offset, len)
           /\ rbuf' = <<>>
           /\ shadow' = [p \in DOMAIN shadow |->
                           IF p >= offset /\ p < offset + len
                           THEN src[p - offset] ELSE shadow[p]]

\* fn size(&self) -> usize { self.device.lock().capacity() * 512 }
Size ==
    /\ ~panicked
    /\ nOps < MaxOps
    /\ nOps' = nOps + 1
    /\ call' = [op |-> "size", offset |-> 0, len |-> 0]
    /\ prev' = call.op
    /\ ret' = [kind |-> "Ok", val |-> capacity * SECTOR_SIZE]
    /\ rbuf' = <<>>
    /\ log' = << <<"lock_device", 0, "Ok">>, <<"unlock_device", 0, "Ok">> >>
    /\ UNCHANGED <<medium, capacity, cache, mem, allocated, dirty, written,
                   shadow, locks, thr>>

\* fn flush(&self) -> AlienResult<()> { Ok(()) } -- the body is commented out.
FlushEffect_all ==
    [medium |-> [p \in DOMAIN medium |->
                   IF LruContains(cache, p \div PAGE_CACHE_SIZE)
                   THEN mem[LruPeek(cache, p \div PAGE_CACHE_SIZE).ptr]
                           [p % PAGE_CACHE_SIZE]
                   ELSE medium[p]],
     dirty |-> <<>>,
     log |-> [k \in 1..(Len(cache) * PAGE_SECTORS) |->
                <<"write_block",
                  start_block(cache[((k - 1) \div PAGE_SECTORS) + 1].id)
                     + ((k - 1) % PAGE_SECTORS),
                  "Ok">>]]

FlushEffect == [medium |-> medium, dirty |-> dirty, log |-> <<>>]

Flush ==
    /\ ~panicked
    /\ nOps < MaxOps
    /\ nOps' = nOps + 1
    /\ call' = [op |-> "flush", offset |-> 0, len |-> 0]
    /\ prev' = call.op
    /\ ret' = [kind |-> "Ok", val |-> 0]
    /\ rbuf' = <<>>
    /\ medium' = FlushEffect.medium
    /\ dirty' = FlushEffect.dirty
    /\ log' = FlushEffect.log
    /\ UNCHANGED <<capacity, cache, mem, allocated, written, shadow, locks,
                   thr>>

Read ==
    /\ nOps < MaxOps
    /\ \E len \in Lens, offset \in Offsets, pick \in {"lo", "hi"},
             failAt \in 0..MaxFailAt :
           ReadCall(len, offset, pick, failAt)

Write ==
    /\ nOps < MaxOps
    /\ \E len \in Lens, offset \in Offsets, pick \in {"lo", "hi"},
             failAt \in 0..MaxFailAt :
           WriteCall(WBuf(nOps + 1, len), offset, pick, failAt)

Next == Read \/ Write \/ Size \/ Flush

Spec == Init /\ [][Next]_vars

----------------------------------------------------------------------------
(* The three-page scenario: a device of exactly three pages, whatever it   *)
(* held before; a full page of 0xAA, 0xBB, 0xCC written to pages 0, 1, 2,  *)
(* then pages 0, 1, 2 read whole, in that order, the transport never       *)
(* failing.                                                                *)

ScnBytes == <<170, 187, 204>>

ScnPage(v) == [i \in 0..(PAGE_CACHE_SIZE - 1) |-> v]

ScnImages ==
    {[p \in 0..(Len(ScnBytes) * PAGE_CACHE_SIZE - 1) |->
         f[p \div PAGE_CACHE_SIZE]] :
       f \in [0..(Len(ScnBytes) - 1) -> 0..2]}

ScnInit == \E image \in ScnImages : New(Len(ScnBytes) * PAGE_SECTORS, image)

ScnWrite ==
    /\ nOps < Len(ScnBytes)
    /\ \E pick \in {"lo", "hi"} :
          WriteCall(ScnPage(ScnBytes[nOps + 1]), nOps * PAGE_CACHE_SIZE,
                    pick, 0)

ScnRead ==
    /\ nOps >= Len(ScnBytes)
    /\ nOps < 2 * Len(ScnBytes)
    /\ \E pick \in {"lo", "hi"} :
          ReadCall(PAGE_CACHE_SIZE,
                   (nOps - Len(ScnBytes)) * PAGE_CACHE_SIZE, pick, 0)

ScnNext == ScnWrite \/ ScnRead

ScnSpec == ScnInit /\ [][ScnNext]_vars

----------------------------------------------------------------------------
(* The same device called by several threads at once.  A thread's call     *)
(* advances one step at a time; the steps are cut at every Mutex::lock()   *)
(* (a spin until the lock is free) and at every chunk of the loop.  The    *)
(* transport does not fail here and every request lies within a device of  *)
(* whole pages, so no call panics.                                         *)

ConcCapacity == (MaxCapacity \div PAGE_SECTORS) * PAGE_SECTORS

ConcInit == New(ConcCapacity, InitImage(ConcCapacity))

\* The sequential bookkeeping, unused while threads interleave.
ConcIdle == UNCHANGED <<capacity, call, prev, ret, rbuf, log>>

StOf(t) ==
    [cache |-> cache, mem |-> mem, alloc |-> allocated, medium |-> medium,
     dirty |-> dirty, written |-> written, buf |-> thr[t].buf,
     status |-> "run", ionum |-> 0, log |-> <<>>]

RqOf(t) ==
    [kind |-> thr[t].kind, len |-> thr[t].len, src |-> thr[t].src,
     cap |-> capacity, failAt |-> 0, pick |-> "lo"]

\* read / write entered: page_id and offset are computed before any lock.
BeginRw(t, kind, offset, len) ==
    /\ thr[t].pc = "idle"
    /\ nOps < MaxCalls
    /\ offset + len <= capacity * SECTOR_SIZE
    /\ nOps' = nOps + 1
    /\ thr' = [thr EXCEPT ![t] =
                 [IdleThr EXCEPT
                    !.pc = "lock_cache",
                    !.kind = kind,
                    !.off = offset,
                    !.len = len,
                    !.src = IF kind = "write" THEN WBuf(nOps + 1, len)
                            ELSE <<>>,
                    !.buf = IF kind = "read" THEN [i \in 0..(len - 1) |-> 0]
                            ELSE <<>>,
                    !.offset = offset % PAGE_CACHE_SIZE,
                    !.page_id = offset \div PAGE_CACHE_SIZE]]
    /\ UNCHANGED <<medium, cache, mem, allocated, dirty, written, shadow,
                   locks>>
    /\ ConcIdle

BeginRead(t) ==
    \E len \in Lens, offset \in Offsets : BeginRw(t, "read", offset, len)

BeginWrite(t) ==
    \E len \in Lens, offset \in Offsets : BeginRw(t, "write", offset, len)

\* let mut cache_lock = self.cache.lock();  The write takes its place in
\* the order of requests here (ghost `shadow`).
AcquireCache(t) ==
    /\ thr[t].pc = "lock_cache"
    /\ locks.cache = 0
    /\ locks' = [locks EXCEPT !.cache = t]
    /\ thr' = [thr EXCEPT ![t].pc = "loop"]
    /\ shadow' = IF thr[t].kind = "write"
                 THEN [p \in DOMAIN shadow |->
                         IF p >= thr[t].off + thr[t].count
                            /\ p < thr[t].off + thr[t].len
                         THEN thr[t].src[p - thr[t].off] ELSE shadow[p]]
                 ELSE shadow
    /\ UNCHANGED <<medium, cache, mem, allocated, dirty, written, nOps>>
    /\ ConcIdle

\* while count < len -- the loop is left; cache_lock is dropped on return.
Return(t) ==
    /\ thr[t].pc = "loop"
    /\ thr[t].count >= thr[t].len
    /\ locks' = [locks EXCEPT !.cache = 0]
    /\ thr' = [thr EXCEPT ![t] =
                 [IdleThr EXCEPT
                    !.kind = thr[t].kind,
                    !.off = thr[t].off,
                    !.len = thr[t].len,
                    !.count = thr[t].count,
                    !.buf = thr[t].buf,
                    !.ret = [kind |-> "Ok", val |-> thr[t].len]]]
    /\ UNCHANGED <<medium, cache, mem, allocated, dirty, written, shadow,
                   nOps>>
    /\ ConcIdle

\* The end of one iteration: cache_lock lives on into the next one.
AfterCopy_release(lk, t, more) ==
    IF more
    THEN [locks |-> [lk EXCEPT !.cache = 0], pc |-> "lock_cache"]
    ELSE [locks |-> lk, pc |-> "loop"]

AfterCopy(lk, t, more) == [locks |-> lk, pc |-> "loop"]

\* let cache = cache_lock.get(&page_id).unwrap(); the copy; count, offset
\* and page_id move on.
Access(t) ==
    LET T   == thr[t]
        c2  == LruGet(cache, T.page_id)
        ptr == LruPeek(c2, T.page_id).ptr
        cl  == copy_len(T.offset, T.len, T.count)
        s3  == IF T.kind = "write"
               THEN CopyIn(StOf(t), RqOf(t), T.page_id, ptr, T.count,
                           T.offset, cl)
               ELSE CopyOut(StOf(t), T.page_id, ptr, T.count, T.offset, cl)
        ac  == AfterCopy(locks, t, T.count + cl < T.len)
    IN  /\ cache' = c2
        /\ mem' = s3.mem
        /\ written' = s3.written
        /\ locks' = ac.locks
        /\ thr' = [thr EXCEPT ![t] =
                     [T EXCEPT !.buf = s3.buf,
                               !.count = @ + cl,
                               !.offset = NextOffset(T.kind, @, cl),
                               !.page_id = @ + 1,
                               !.pc = ac.pc]]
        /\ UNCHANGED <<medium, allocated, dirty, shadow, nOps>>
        /\ ConcIdle

\* cache_lock.contains(&page_id): the page is resident.
Hit(t) ==
    /\ thr[t].pc = "loop"
    /\ thr[t].count < thr[t].len
    /\ LruContains(cache, thr[t].page_id)
    /\ Access(t)

\* !cache_lock.contains(&page_id): on to `let mut device = self.device.lock()`.
Miss(t) ==
    /\ thr[t].pc = "loop"
    /\ thr[t].count < thr[t].len
    /\ ~LruContains(cache, thr[t].page_id)
    /\ thr' = [thr EXCEPT ![t].pc = "lock_device"]
    /\ UNCHANGED <<medium, cache, mem, allocated, dirty, written, shadow,
                   nOps, locks>>
    /\ ConcIdle

\* self.device.lock(), in the miss branch and in size.
AcquireDevice(t) ==
    /\ thr[t].pc \in {"lock_device", "size_lock"}
    /\ locks.device = 0
    /\ locks' = [locks EXCEPT !.device = t]
    /\ thr' = [thr EXCEPT ![t].pc = IF @ = "lock_device" THEN "fill"
                                    ELSE "size_cap"]
    /\ UNCHANGED <<medium, cache, mem, allocated, dirty, written, shadow,
                   nOps>>
    /\ ConcIdle

\* The guard `device` goes out of scope at the end of the miss branch.
DeviceGuardDrop_leak(lk, t) == lk

DeviceGuardDrop(lk, t) == [lk EXCEPT !.device = 0]

\* alloc_frames, the read_block loop, push.
Fill(t) ==
    /\ thr[t].pc = "fill"
    /\ FreeFrames(allocated) # {}
    /\ \E pick \in {"lo", "hi"} :
          LET pg == thr[t].page_id
              f  == alloc_frames(allocated, pick)
              s1 == [StOf(t) EXCEPT !.alloc = @ \cup {f},
                                    !.mem[f] = FreshFrame]
              s2 == FillBlocks(s1, RqOf(t), f, start_block(pg),
                               start_block(pg), end_block(pg))
              p  == LruPush(cache, pg, FrameTracker_new(f))
          IN  /\ s2.status = "run"
              /\ cache' = p.cache
              /\ mem' = s2.mem
              /\ allocated' = s2.alloc
              /\ IF p.old = <<>>
                 THEN /\ locks' = DeviceGuardDrop(locks, t)
                      /\ thr' = [thr EXCEPT ![t].pc = "copy"]
                 ELSE /\ locks' = locks
                      /\ thr' = [thr EXCEPT
                                   ![t].pc = "wb",
                                   ![t].old = p.old,
                                   ![t].i = start_block(p.old[1].id)]
    /\ UNCHANGED <<medium, dirty, written, shadow, nOps>>
    /\ ConcIdle

\* device.write_block(i, target_buf).unwrap();
WriteBack(t) ==
    /\ thr[t].pc = "wb"
    /\ LET old    == thr[t].old[1]
           frame  == mem[old.ft.ptr]
           target == [j \in 0..(SECTOR_SIZE - 1) |->
                        frame[SliceLo(thr[t].i, start_block(old.id)) + j]]
           w      == write_block(medium, capacity, thr[t].i, target, FALSE)
       IN  /\ w.ok
           /\ medium' = w.medium
    /\ thr' = [thr EXCEPT ![t].pc = "lock_dirty"]
    /\ UNCHANGED <<cache, mem, allocated, dirty, written, shadow, nOps,
                   locks>>
    /\ ConcIdle

\* self.dirty.lock()
AcquireDirty(t) ==
    /\ thr[t].pc = "lock_dirty"
    /\ locks.dirty = 0
    /\ locks' = [locks EXCEPT !.dirty = t]
    /\ thr' = [thr EXCEPT ![t].pc = "retain"]
    /\ UNCHANGED <<medium, cache, mem, allocated, dirty, written, shadow,
                   nOps>>
    /\ ConcIdle

\* .retain(|&x| x != id); the dirty guard is a temporary.  After the last
\* block old_cache is dropped, then the device guard.
Retain(t) ==
    /\ thr[t].pc = "retain"
    /\ LET old == thr[t].old[1]
           lk  == [locks EXCEPT !.dirty = 0]
       IN  /\ dirty' = SelectSeq(dirty, LAMBDA x : x # old.id)
           /\ IF thr[t].i + 1 < end_block(old.id)
              THEN /\ thr' = [thr EXCEPT ![t].pc = "wb", ![t].i = @ + 1]
                   /\ locks' = lk
                   /\ UNCHANGED <<mem, allocated, written>>
              ELSE /\ thr' = [thr EXCEPT ![t].pc = "copy",
                                         ![t].old = <<>>,
                                         ![t].i = 0]
                   /\ locks' = DeviceGuardDrop(lk, t)
                   /\ allocated' = FrameTracker_drop(allocated, old.ft)
                   /\ mem' = [mem EXCEPT ![old.ft.ptr] = FreshFrame]
                   /\ written' = written \ {old.id}
    /\ UNCHANGED <<medium, cache, shadow, nOps>>
    /\ ConcIdle

\* The page access after a miss.
CopyStep(t) ==
    /\ thr[t].pc = "copy"
    /\ Access(t)

\* size entered.
BeginSize(t) ==
    /\ thr[t].pc = "idle"
    /\ nOps < MaxCalls
    /\ nOps' = nOps + 1
    /\ thr' = [thr EXCEPT ![t] =
                 [IdleThr EXCEPT !.pc = "size_lock", !.kind = "size"]]
    /\ UNCHANGED <<medium, cache, mem, allocated, dirty, written, shadow,
                   locks>>
    /\ ConcIdle

\* .capacity() * 512; the device guard is a temporary.
SizeReturn(t) ==
    /\ thr[t].pc = "size_cap"
    /\ locks' = [locks EXCEPT !.device = 0]
    /\ thr' = [thr EXCEPT ![t] =
                 [IdleThr EXCEPT
                    !.kind = "size",
                    !.ret = [kind |-> "Ok",
                             val |-> capacity * SECTOR_SIZE]]]
    /\ UNCHANGED <<medium, cache, mem, allocated, dirty, written, shadow,
                   nOps>>
    /\ ConcIdle

\* flush: no lock, no effect.
FlushCall(t) ==
    /\ thr[t].pc = "idle"
    /\ nOps < MaxCalls
    /\ nOps' = nOps + 1
    /\ thr' = [thr EXCEPT ![t] =
                 [IdleThr EXCEPT !.kind = "flush",
                                 !.ret = [kind |-> "Ok", val |-> 0]]]
    /\ medium' = FlushEffect.medium
    /\ dirty' = FlushEffect.dirty
    /\ UNCHANGED <<cache, mem, allocated, written, shadow, locks>>
    /\ ConcIdle

\* A spin on a Mutex.
Acquire(t) == AcquireCache(t) \/ AcquireDevice(t) \/ AcquireDirty(t)

\* Every other step of a call under way.
Run(t) ==
    \/ Return(t) \/ Hit(t) \/ Miss(t) \/ Fill(t) \/ WriteBack(t)
    \/ Retain(t) \/ CopyStep(t) \/ SizeReturn(t)

ConcNext ==
    \E t \in Threads :
       \/ BeginRead(t) \/ BeginWrite(t) \/ BeginSize(t) \/ FlushCall(t)
       \/ AcquireCache(t) \/ AcquireDevice(t) \/ AcquireDirty(t)
       \/ Return(t) \/ Hit(t) \/ Miss(t) \/ Fill(t) \/ WriteBack(t)
       \/ Retain(t) \/ CopyStep(t) \/ SizeReturn(t)

ConcSpec == ConcInit /\ [][ConcNext]_vars

\* Fair lock acquisition: a thread that finds its lock free again and again
\* gets it; a thread that can run does.
ConcFairSpec ==
    /\ ConcSpec
    /\ \A t \in Threads : WF_vars(Run(t)) /\ SF_vars(Acquire(t))

----------------------------------------------------------------------------
(* What a state shows of the device.                                       *)

PageOf(p) == p \div PAGE_CACHE_SIZE

ResidentAt(c, pg) == LruContains(c, pg)

\* The byte at p as the next read would see it: the frame's if the page is
\* resident, the medium's if not.
LogicalAt(c, m, md, p) ==
    IF ResidentAt(c, PageOf(p))
    THEN m[LruPeek(c, PageOf(p)).ptr][p % PAGE_CACHE_SIZE]
    ELSE md[p]

Events == {log[k] : k \in 1..Len(log)}

TransportIo ==
    {k \in 1..Len(log) : log[k][1] \in {"read_block", "write_block"}}

BlocksOf(pg) == start_block(pg)..(end_block(pg) - 1)

\* The pages a request of len bytes at offset touches.
PagesOf(offset, len) ==
    IF len = 0 THEN {} ELSE PageOf(offset)..PageOf(offset + len - 1)

\* The pages the last read or write touched.
Touched == PagesOf(call.offset, call.len)

Reloaded(pg) == \A b \in BlocksOf(pg) : <<"read_block", b, "Ok">> \in Events

ReturnedOk(op) == call.op = op /\ ret.kind = "Ok"

----------------------------------------------------------------------------
(* C1.  Read-after-write: on a transport that does not fail, every read    *)
(* that returns gives, for each byte of its range, the byte the latest     *)
(* write covering it stored (`shadow`); so a read of the range of one      *)
(* earlier write, not written into since, returns that write's buffer,     *)
(* across page boundaries and across eviction and reload.                  *)
ReadAfterWrite ==
    ReturnedOk("read") =>
        /\ ret.val = call.len
        /\ \A i \in 0..(call.len - 1) : rbuf[i] = shadow[call.offset + i]

\* The third call reads back, over two pages both reloaded from the medium,
\* exactly the buffer the first call wrote at the same offset.
ReadAfterWriteWitness ==
    /\ ReturnedOk("read")
    /\ nOps = 3
    /\ call.len = 2
    /\ call.offset % PAGE_CACHE_SIZE = PAGE_CACHE_SIZE - 1
    /\ rbuf = WBuf(1, 2)
    /\ \A pg \in Touched : Reloaded(pg)

(* C2.  Eviction durability: every eviction of a call that returns wrote   *)
(* each block of the victim's own block range, after the victim left the   *)
(* cache, and every byte of a page that is not resident is on the medium   *)
(* as it was last in the cache (the latest write to it included).          *)
EvictionDurable ==
    ~panicked =>
        /\ \A k \in 1..Len(log) :
              log[k][1] = "evict" =>
                 \A b \in BlocksOf(log[k][2]) :
                    \E j \in (k + 1)..Len(log) :
                       log[j] = <<"write_block", b, "Ok">>
        /\ \A p \in DOMAIN medium :
              ~ResidentAt(cache, PageOf(p)) => medium[p] = shadow[p]

\* A page that was written has been evicted, and the medium holds what was
\* written.
EvictionDurableWitness ==
    /\ ~panicked
    /\ \E k \in 1..Len(log) : log[k][1] = "evict"
    /\ \E p \in DOMAIN medium :
          /\ ~ResidentAt(cache, PageOf(p))
          /\ medium[p] >= 16
          /\ medium[p] = shadow[p]

(* C3.  Capacity: the cache never holds more than BLOCK_CACHE_FRAMES       *)
(* entries, nor two entries of one page index, whatever the calls.         *)
CapacityInvariant ==
    /\ Len(cache) <= BLOCK_CACHE_FRAMES
    /\ \A i, j \in 1..Len(cache) : cache[i].id = cache[j].id => i = j

\* One request touched more pages than the cache holds and left it full.
CapacityWitness ==
    /\ ret.kind = "Ok"
    /\ call.op \in {"read", "write"}
    /\ Cardinality(Touched) > BLOCK_CACHE_FRAMES
    /\ Len(cache) = BLOCK_CACHE_FRAMES

(* C4.  flush forces dirty pages back: when flush returns Ok, the medium   *)
(* holds the cached content of every resident page written since its fill, *)
(* and the dirty set is empty.                                             *)
FlushForcesDirtyPages ==
    ReturnedOk("flush") =>
        /\ \A p \in DOMAIN medium :
              PageOf(p) \in written => medium[p] = LogicalAt(cache, mem, medium, p)
        /\ dirty = <<>>

(* C5.  A transport error inside read or write comes back to the caller as *)
(* an error: the call does not panic, and the cache holds no entry for the *)
(* page whose fill failed and no entry whose frame is free.                *)
TransportErrorReturned ==
    (\E k \in 1..Len(log) :
        log[k][1] \in {"read_block", "write_block"} /\ log[k][3] = "Err") =>
        /\ ret.kind = "Err"
        /\ \A i \in 1..Len(cache) : cache[i].ft.ptr \in allocated

(* C6.  A read or write whose byte range ends past capacity() * 512        *)
(* returns OutOfRange, changes neither cache nor medium, and issues no     *)
(* block I/O.                                                              *)
OutOfRangeRejected ==
    [][(/\ call'.op \in {"read", "write"}
        /\ call'.len >= 1
        /\ call'.offset + call'.len > capacity * SECTOR_SIZE)
       => (/\ ret' = [kind |-> "Err", val |-> "OutOfRange"]
           /\ cache' = cache
           /\ medium' = medium
           /\ \A k \in 1..Len(log') :
                 log'[k][1] \notin {"read_block", "write_block"})]_vars

(* C7.  No frame aliasing: with an allocator that hands out only frames    *)
(* not allocated now, no two cache entries hold the same frame.            *)
NoFrameAliasing ==
    \A i, j \in 1..Len(cache) :
       cache[i].ft.ptr = cache[j].ft.ptr => i = j

\* A full cache, after an eviction gave a frame back to the allocator.
NoFrameAliasingWitness ==
    /\ Len(cache) = BLOCK_CACHE_FRAMES
    /\ nOps >= 2
    /\ \E k \in 1..Len(log) : log[k][1] = "free"

(* C8.  Idempotent flush: a flush that directly follows a flush (no write  *)
(* between them) issues no read_block and no write_block.                  *)
SecondFlushNoIo ==
    (call.op = "flush" /\ prev = "flush") => TransportIo = {}

\* Two flushes in a row, with pages in the cache written and not evicted.
SecondFlushWitness ==
    /\ call.op = "flush"
    /\ prev = "flush"
    /\ ret.kind = "Ok"
    /\ written # {}

(* C9, as the code has it.  Cache of two pages, three full-page writes    *)
(* (the third evicts page 0), then the three reads: the read of page 0     *)
(* reloads it from the medium and returns 0xAA; the read of page 1 returns *)
(* 0xBB, but after a reload too, since reloading page 0 evicted page 1,    *)
(* the least recently used; the read of page 2 returns 0xCC.               *)
ScenarioReads ==
    BLOCK_CACHE_FRAMES = 2 =>
        /\ ret.kind = "Ok"
        /\ nOps = 3 => <<"evict", 0, "Ok">> \in Events
        /\ nOps = 4 => rbuf = ScnPage(ScnBytes[1]) /\ Reloaded(0)
        /\ nOps = 5 => rbuf = ScnPage(ScnBytes[2]) /\ Reloaded(1)
        /\ nOps = 6 => rbuf = ScnPage(ScnBytes[3])

\* The read of page 1 has returned 0xBB bytes that it read from the medium.
ScenarioWitness ==
    /\ BLOCK_CACHE_FRAMES = 2
    /\ nOps = 5
    /\ ReturnedOk("read")
    /\ call.offset = PAGE_CACHE_SIZE
    /\ rbuf = ScnPage(ScnBytes[2])
    /\ Reloaded(1)
    /\ <<"evict", 2, "Ok">> \in Events

(* C9 as stated: the read of page 1 is served from the cache, no transport *)
(* read being issued for it.                                               *)
ScenarioReadsAsStated ==
    BLOCK_CACHE_FRAMES = 2 =>
        /\ ret.kind = "Ok"
        /\ nOps = 3 => <<"evict", 0, "Ok">> \in Events
        /\ nOps = 4 => rbuf = ScnPage(ScnBytes[1]) /\ Reloaded(0)
        /\ nOps = 5 => /\ rbuf = ScnPage(ScnBytes[2])
                       /\ \A b \in BlocksOf(1) :
                             <<"read_block", b, "Ok">> \notin Events
        /\ nOps = 6 => rbuf = ScnPage(ScnBytes[3])

(* C10.  A write changes only the bytes it covers: after a write that      *)
(* returns, every byte of the device outside [offset, offset + len) reads  *)
(* as it did before, and each page touched that was not resident was       *)
(* filled from the medium, whole, before bytes were copied into it.        *)
WriteChangesOnlyItsRange ==
    [][(call'.op = "write" /\ ret'.kind = "Ok") =>
        /\ \A p \in DOMAIN medium :
              (p < call'.offset \/ p >= call'.offset + call'.len) =>
                 LogicalAt(cache', mem', medium', p)
                    = LogicalAt(cache, mem, medium, p)
        /\ \A p \in DOMAIN medium :
              (p >= call'.offset /\ p < call'.offset + call'.len) =>
                 LogicalAt(cache', mem', medium', p)
                    = WVal(nOps', p - call'.offset)
        /\ \A k \in 1..Len(log') :
              (log'[k][1] = "copy" /\ ~ResidentAt(cache, log'[k][2])) =>
                 \A b \in BlocksOf(log'[k][2]) :
                    \E j \in 1..(k - 1) : log'[j] = <<"read_block", b, "Ok">>
        /\ {log'[k][2] : k \in {j \in 1..Len(log') : log'[j][1] = "copy"}}
              = PagesOf(call'.offset, call'.len)
       ]_vars

\* An unaligned write over a page boundary returned, both pages filled by it.
WriteRangeWitness ==
    /\ ReturnedOk("write")
    /\ call.len = 2
    /\ call.offset % PAGE_CACHE_SIZE = PAGE_CACHE_SIZE - 1
    /\ \A pg \in Touched : Reloaded(pg)
    /\ \E p \in DOMAIN medium : p < call.offset /\ PageOf(p) \in Touched

----------------------------------------------------------------------------
(* What one call's event log shows of its locks.                           *)

\* The lock is held just before event k of the call: it was taken by an
\* earlier event and not released since.
Held(lk, k) ==
    \E j \in 1..(k - 1) :
       /\ log[j][1] = "lock_" \o lk
       /\ \A i \in (j + 1)..(k - 1) : log[i][1] # "unlock_" \o lk

DeviceUnderCache ==
    \A k \in 1..Len(log) : log[k][1] = "lock_device" => Held("cache", k)

NoCacheUnderDevice ==
    \A k \in 1..Len(log) : log[k][1] = "lock_cache" => ~Held("device", k)

\* C11 as stated: in every operation the transport lock is taken only under
\* the cache lock, and the cache lock never under the transport lock.
LockOrderAsStated == DeviceUnderCache /\ NoCacheUnderDevice

(* C11.  Lock order: read and write take the transport lock only while     *)
(* the cache lock is held; size takes the transport lock alone, without    *)
(* the cache lock; flush takes no lock; and no operation takes the cache   *)
(* lock while it holds the transport lock.                                 *)
LockOrder ==
    /\ call.op \in {"read", "write"} => DeviceUnderCache
    /\ call.op = "size" =>
          /\ \E k \in 1..Len(log) : log[k][1] = "lock_device"
          /\ \A k \in 1..Len(log) : log[k][1] # "lock_cache"
    /\ call.op = "flush" =>
          \A k \in 1..Len(log) :
             log[k][1] \notin {"lock_cache", "lock_device"}
    /\ NoCacheUnderDevice

\* A write that missed twice took the transport lock twice, each time under
\* the cache lock, and returned.
LockOrderWitness ==
    /\ ReturnedOk("write")
    /\ Cardinality({k \in 1..Len(log) : log[k][1] = "lock_device"}) = 2
    /\ DeviceUnderCache

----------------------------------------------------------------------------
(* What one call's event log shows of its page accesses.  A "copy" event   *)
(* <<"copy", page, offset, copy_len>> ends each page access.               *)

MaxOf(S) == CHOOSE x \in S : \A y \in S : y <= x

\* The last access of page pg before event k of the call; 0 if the call had
\* not accessed it yet.
LastAcc(lg, pg, k) ==
    LET S == {j \in 1..(k - 1) : lg[j][1] = "copy" /\ lg[j][2] = pg}
    IN  IF S = {} THEN 0 ELSE MaxOf(S)

\* Page a was last accessed before page b was, as of event k of a call that
\* began with cache c: by the call's own accesses, else by the order the
\* earlier calls left.
Older(c, lg, k, a, b) ==
    \/ LastAcc(lg, a, k) < LastAcc(lg, b, k)
    \/ /\ LastAcc(lg, a, k) = 0
       /\ LastAcc(lg, b, k) = 0
       /\ LruContains(c, a)
       /\ LruContains(c, b)
       /\ LruIndex(c, a) > LruIndex(c, b)

\* The pages resident just before event k of a call that began with cache c:
\* those whose last push or eviction before k was a push, and those of c
\* that the call has neither pushed nor evicted.
ResidentBefore(c, lg, k) ==
    {pg \in {c[i].id : i \in 1..Len(c)}
              \cup {lg[j][2] : j \in {i \in 1..(k - 1) : lg[i][1] = "push"}} :
        LET S == {j \in 1..(k - 1) :
                     lg[j][1] \in {"push", "evict"} /\ lg[j][2] = pg}
        IN  IF S = {} THEN LruContains(c, pg) ELSE lg[MaxOf(S)][1] = "push"}

(* C14.  LRU victim: every eviction follows the push of a page into a      *)
(* full cache; its victim is a page resident before the push, never the    *)
(* page just pushed, and was last accessed before every other resident     *)
(* page; and after a call that returns, the cache lists its pages from     *)
(* the most to the least recently accessed, so every access (hit or        *)
(* post-fill) made its page the most recently used.                        *)
LruVictim ==
    [][call'.op \in {"read", "write"} =>
         /\ \A k \in 1..Len(log') :
               log'[k][1] = "evict" =>
                  /\ k > 1
                  /\ log'[k - 1][1] = "push"
                  /\ LET v == log'[k][2]
                         R == ResidentBefore(cache, log', k - 1)
                     IN  /\ Cardinality(R) = BLOCK_CACHE_FRAMES
                         /\ v \in R
                         /\ v # log'[k - 1][2]
                         /\ \A a \in R \ {v} : Older(cache, log', k, v, a)
         /\ ret'.kind = "Ok" =>
               \A i \in 1..Len(cache') : \A j \in (i + 1)..Len(cache') :
                  Older(cache, log', Len(log') + 1,
                        cache'[j].id, cache'[i].id)]_vars

\* A call hit a resident page that was not the most recently used, then
\* missed, and the victim was the other resident page.
LruVictimWitness ==
    /\ ReturnedOk("read")
    /\ nOps = 3
    /\ \E k \in 2..Len(log) :
          /\ log[k][1] = "evict"
          /\ \E j \in 1..(k - 1) :
                log[j][1] = "copy" /\ log[j][2] # log[k][2]
                   /\ \A i \in 1..(j - 1) : log[i][1] # "push"

\* The copy event before event k of the call; 0 if there is none.
PrevCopy(lg, k) ==
    LET S == {j \in 1..(k - 1) : lg[j][1] = "copy"}
    IN  IF S = {} THEN 0 ELSE MaxOf(S)

(* C15.  I/O only on a miss: an access to a page that is resident issues   *)
(* no read_block and no write_block; an access to a page that is not       *)
(* resident issues exactly PAGE_CACHE_SIZE / 512 read_block calls, for     *)
(* the consecutive blocks from page_id * PAGE_CACHE_SIZE / 512, all of     *)
(* them before the entry is pushed, in write as in read.                   *)
IoOnlyOnMiss ==
    [][call'.op \in {"read", "write"} =>
         \A k \in 1..Len(log') :
            log'[k][1] = "copy" =>
               LET pg  == log'[k][2]
                   lo  == PrevCopy(log', k) + 1
                   rd  == SelectSeq(SubSeq(log', lo, k - 1),
                                    LAMBDA e : e[1] = "read_block")
                   res == /\ LruContains(cache, pg)
                          /\ \A j \in 1..(k - 1) :
                                log'[j] # <<"evict", pg, "Ok">>
               IN  IF res
                   THEN \A i \in lo..(k - 1) :
                           log'[i][1] \notin {"read_block", "write_block"}
                   ELSE /\ Len(rd) = PAGE_CACHE_SIZE \div SECTOR_SIZE
                        /\ \A i \in 1..Len(rd) :
                              rd[i] = <<"read_block",
                                        (pg * PAGE_CACHE_SIZE) \div SECTOR_SIZE
                                           + (i - 1),
                                        "Ok">>
                        /\ \E j \in lo..(k - 1) :
                              /\ log'[j] = <<"push", pg, "Ok">>
                              /\ \A i \in lo..(k - 1) :
                                    log'[i][1] = "read_block" => i < j]_vars

\* One write hit a resident page, with no transport call, and then missed
\* the next page, which it filled whole.
IoOnlyOnMissWitness ==
    /\ ReturnedOk("write")
    /\ \E k \in 1..Len(log) :
          /\ log[k][1] = "copy"
          /\ \A i \in 1..(k - 1) :
                log[i][1] \notin {"read_block", "write_block", "copy"}
          /\ \E j \in (k + 1)..Len(log) : log[j][1] = "push"
    /\ Cardinality({k \in 1..Len(log) : log[k][1] = "read_block"})
          = PAGE_CACHE_SIZE \div SECTOR_SIZE

(* C16.  Frame release after write-back: the frame of a victim goes back   *)
(* to the allocator only after every one of the PAGE_CACHE_SIZE / 512      *)
(* write_block calls of its eviction returned; every write_block is made   *)
(* between an eviction and the release of its frame; so no byte of a       *)
(* frame already released ever reaches the medium.                         *)
FreeAfterWriteBack ==
    /\ \A j \in 1..Len(log) :
          log[j][1] = "free" =>
             \E k \in 1..(j - 1) :
                /\ log[k][1] = "evict"
                /\ \A i \in (k + 1)..(j - 1) :
                      log[i][1] \in {"write_block", "retain"}
                /\ \A b \in 0..(PAGE_CACHE_SIZE \div SECTOR_SIZE - 1) :
                      \E i \in (k + 1)..(j - 1) :
                         log[i] = <<"write_block",
                                    (log[k][2] * PAGE_CACHE_SIZE)
                                       \div SECTOR_SIZE + b,
                                    "Ok">>
    /\ \A i \in 1..Len(log) :
          (log[i][1] = "write_block" /\ call.op \in {"read", "write"}) =>
             \E k \in 1..(i - 1) :
                /\ log[k][1] = "evict"
                /\ \A j \in (k + 1)..(i - 1) : log[j][1] # "free"
    /\ \A p \in DOMAIN medium : medium[p] # Uninit

\* An eviction wrote the victim's blocks and then released its frame.
FreeAfterWriteBackWitness ==
    /\ ~panicked
    /\ \E j \in 1..Len(log) :
          /\ log[j][1] = "free"
          /\ log[j][2] \notin allocated
          /\ log[j - 1][1] = "retain"

CopiesOf(lg) == SelectSeq(lg, LAMBDA e : e[1] = "copy")

RECURSIVE SumLen(_, _)
SumLen(c, k) == IF k = 0 THEN 0 ELSE SumLen(c, k - 1) + c[k][4]

(* C17.  Chunks stay within a page: every chunk of a read or write has     *)
(* intra-page offset < PAGE_CACHE_SIZE, offset + copy_len <=               *)
(* PAGE_CACHE_SIZE and copy_len >= 1; the chunks are on consecutive pages  *)
(* from the request's first page, the first at the request's intra-page    *)
(* offset and every later one at offset 0, each beginning where the one    *)
(* before ended; and when the call returns the copy lengths sum to the     *)
(* buffer's length, which is the value returned.                           *)
ChunksWithinPage ==
    call.op \in {"read", "write"} =>
        LET c == CopiesOf(log)
        IN  /\ \A k \in 1..Len(c) :
                  /\ c[k][3] >= 0
                  /\ c[k][3] < PAGE_CACHE_SIZE
                  /\ c[k][4] >= 1
                  /\ c[k][3] + c[k][4] <= PAGE_CACHE_SIZE
                  /\ c[k][2] = call.offset \div PAGE_CACHE_SIZE + (k - 1)
                  /\ c[k][3] = IF k = 1 THEN call.offset % PAGE_CACHE_SIZE
                               ELSE 0
                  /\ c[k][2] * PAGE_CACHE_SIZE + c[k][3]
                        = call.offset + SumLen(c, k - 1)
            /\ ret.kind = "Ok" =>
                  /\ SumLen(c, Len(c)) = call.len
                  /\ ret.val = call.len

\* A write that begins inside a page and ends inside the third page after
\* it: three chunks.
ChunksWithinPageWitness ==
    /\ ReturnedOk("write")
    /\ call.offset % PAGE_CACHE_SIZE # 0
    /\ Len(CopiesOf(log)) = 3
    /\ CopiesOf(log)[3][4] < PAGE_CACHE_SIZE

(* C18 as stated: every resident page that holds writes not yet written    *)
(* back is in the dirty list, and every entry of the dirty list is a       *)
(* resident page.                                                          *)
DirtyTracksWrites ==
    ~panicked =>
        /\ \A pg \in written : \E k \in 1..Len(dirty) : dirty[k] = pg
        /\ \A k \in 1..Len(dirty) : ResidentAt(cache, dirty[k])

(* C19 as stated: a read or write whose byte range lies inside             *)
(* [0, size()) passes only block indices below capacity() to read_block    *)
(* and write_block.                                                        *)
BlockIoWithinDevice ==
    (/\ call.op \in {"read", "write"}
     /\ call.offset + call.len <= capacity * SECTOR_SIZE) =>
        \A k \in 1..Len(log) :
           log[k][1] \in {"read_block", "write_block"} => log[k][2] < capacity

(* C20.  Reads do not change stored data: a read that returns leaves       *)
(* every byte of the device as the next read would see it (the frame's     *)
(* for a resident page, the medium's for any other) as it was; and while   *)
(* no write has stored a byte, the medium holds its first image, whatever  *)
(* evictions the reads have caused.                                        *)
ReadsPreserveData ==
    /\ [][(call'.op = "read" /\ ret'.kind = "Ok") =>
             \A p \in DOMAIN medium :
                LogicalAt(cache', mem', medium', p)
                   = LogicalAt(cache, mem, medium, p)]_vars
    /\ [](shadow = InitImage(capacity) => medium = InitImage(capacity))

\* Reads alone have evicted page 0, writing its blocks, and the medium is
\* as it began.
ReadsPreserveDataWitness ==
    /\ ReturnedOk("read")
    /\ shadow = InitImage(capacity)
    /\ medium = InitImage(capacity)
    /\ \E k \in 1..Len(log) : log[k] = <<"write_block", 0, "Ok">>

----------------------------------------------------------------------------
(* Threads and locks.                                                      *)

\* The lock thread t spins on, if any.
Waiting(t) ==
    CASE thr[t].pc = "lock_cache" -> "cache"
      [] thr[t].pc \in {"lock_device", "size_lock"} -> "device"
      [] thr[t].pc = "lock_dirty" -> "dirty"
      [] OTHER -> "none"

\* The thread that holds the lock t spins on; 0 if t spins on no lock or the
\* lock is free.
Blocker(t) == IF Waiting(t) = "none" THEN 0 ELSE locks[Waiting(t)]

\* The thread n waits-for hops from t; 0 if the chain ends before.
RECURSIVE Chain(_, _)
Chain(t, n) ==
    IF n = 0 THEN t
    ELSE IF Chain(t, n - 1) = 0 THEN 0 ELSE Blocker(Chain(t, n - 1))

NoWaitCycle == \A t \in Threads : \A n \in 1..NumThreads : Chain(t, n) # t

InCall(t) == thr[t].pc # "idle"

(* C12.  Deadlock freedom and completion: with threads calling read,       *)
(* write, size and flush at once over a transport that does not fail, no   *)
(* state has threads waiting for one another's cache, transport and dirty  *)
(* locks in a cycle; a read or write leaves its loop only with count =     *)
(* len and returns len; and under fair lock acquisition every call that    *)
(* was entered returns.                                                    *)
DeadlockFree ==
    /\ [](NoWaitCycle)
    /\ [][\A t \in Threads :
             (thr[t].pc = "loop" /\ thr'[t].pc = "idle") =>
                /\ thr[t].count = thr[t].len
                /\ thr'[t].ret = [kind |-> "Ok", val |-> thr[t].len]]_vars
    /\ \A t \in Threads : InCall(t) ~> ~InCall(t)

\* One thread holds the cache, transport and dirty locks at once, in the
\* write-back of a victim, while another spins on the cache lock.
DeadlockFreeWitness ==
    \E t \in Threads : \E u \in Threads :
       /\ thr[t].pc = "retain"
       /\ locks = [cache |-> t, device |-> t, dirty |-> t]
       /\ thr[u].pc = "lock_cache"

InLoop(t) ==
    thr[t].pc \in {"loop", "lock_device", "fill", "wb", "lock_dirty",
                   "retain", "copy"}

Quiescent == \A t \in Threads : ~InCall(t)

(* C13.  Requests are serialised: from before the first chunk of a read    *)
(* or write to after its last the calling thread holds the cache lock, so  *)
(* at most one request is between chunks at a time; a read returns, for    *)
(* its whole range, the bytes of the requests that took the lock before    *)
(* it, each write in it entirely or not at all; and when no call is under  *)
(* way the device holds what the writes stored in the order they took the  *)
(* lock.                                                                   *)
Serialised ==
    /\ [](\A t \in Threads : InLoop(t) => locks.cache = t)
    /\ [][\A t \in Threads :
             (thr[t].kind = "read" /\ thr[t].pc = "loop"
                 /\ thr'[t].pc = "idle") =>
                \A i \in 0..(thr[t].len - 1) :
                   thr'[t].buf[i] = shadow[thr[t].off + i]]_vars
    /\ [](Quiescent =>
            \A p \in DOMAIN medium :
               LogicalAt(cache, mem, medium, p) = shadow[p])

\* A read of several pages has copied its first chunk and not its last,
\* while a write over the same pages spins on the cache lock.
SerialisedWitness ==
    \E t \in Threads : \E u \in Threads :
       /\ thr[t].kind = "read"
       /\ InLoop(t)
       /\ thr[t].count > 0
       /\ thr[t].count < thr[t].len
       /\ thr[u].kind = "write"
       /\ thr[u].pc = "lock_cache"
       /\ thr[u].off <= thr[t].off
       /\ thr[u].off + thr[u].len >= thr[t].off + thr[t].len

----------------------------------------------------------------------------
(* Frames held and frames given back.                                      *)

CountOf(lg, ev) == Cardinality({k \in 1..Len(lg) : lg[k][1] = ev})

\* Frame f is allocated just before event k of a call that began with the
\* frames `al` allocated: its last alloc or free event before k was an
\* alloc, or it has none and was allocated when the call began.
AllocatedBefore(al, lg, f, k) ==
    LET S == {j \in 1..(k - 1) :
                 lg[j][1] \in {"alloc", "free"} /\ lg[j][2] = f}
    IN  IF S = {} THEN f \in al ELSE lg[MaxOf(S)][1] = "alloc"

(* C21.  No frame leak: after every read or write that returns, the frames *)
(* taken from alloc_frames and not given back by free_frames are exactly   *)
(* the frames of the resident cache entries, one each; the call allocated  *)
(* one frame for each miss and freed one frame for each eviction, directly *)
(* after that eviction's write-back, and every frame it freed was          *)
(* allocated at that moment and is no entry's frame afterwards (unless     *)
(* allocated again), so none is freed twice.                               *)
NoFrameLeak ==
    [][(call'.op \in {"read", "write"} /\ ret'.kind = "Ok") =>
         /\ allocated' = {cache'[i].ft.ptr : i \in 1..Len(cache')}
         /\ Cardinality(allocated') = Len(cache')
         /\ CountOf(log', "alloc") = CountOf(log', "push")
         /\ CountOf(log', "free") = CountOf(log', "evict")
         /\ \A k \in 1..Len(log') :
               log'[k][1] = "evict" =>
                  \E j \in (k + 1)..Len(log') :
                     /\ log'[j][1] = "free"
                     /\ \A i \in (k + 1)..(j - 1) :
                           log'[i][1] \notin {"free", "evict", "alloc"}
         /\ \A j \in 1..Len(log') :
               log'[j][1] = "free" =>
                  /\ AllocatedBefore(allocated, log', log'[j][2], j)
                  /\ (log'[j][2] \in allocated' =>
                         \E i \in (j + 1)..Len(log') :
                            log'[i] = <<"alloc", log'[j][2], "Ok">>)]_vars

\* A write over three pages of a device whose cache was full: three misses,
\* three frames allocated, three evictions, three frames freed, and the
\* frames held are those of the two resident pages.
NoFrameLeakWitness ==
    /\ ReturnedOk("write")
    /\ CountOf(log, "alloc") = BLOCK_CACHE_FRAMES + 1
    /\ CountOf(log, "free") = BLOCK_CACHE_FRAMES + 1
    /\ Len(cache) = BLOCK_CACHE_FRAMES
    /\ Cardinality(allocated) = BLOCK_CACHE_FRAMES

============================================================================
